---- MODULE Spec2Model ----
(***************************************************************************)
(* Tkinter AI GUI: the main window's navigation (app/gui.py, MainApp) and  *)
(* the home view's input validation and run lifecycle                      *)
(* (app/views/home_view.py, HomeView), as a state machine driven by the    *)
(* Tk event loop: one action per event handler.                            *)
(***************************************************************************)
EXTENDS Integers, Sequences, FiniteSets, TLC

\* ------------------------------------------------------------------ bounds
\* Cap on the controller dispatches whose callback has not been delivered.
MaxPending == 2

\* Runs saved to the history in one session.
MaxHistory == 2

\* ------------------------------------------------------------------ text
\* The content of a Tk Text widget, run-length encoded: a sequence of runs
\* [c, n], n >= 1 characters of class c, adjacent runs of different classes.
\*   "ws" whitespace, "ch" any other character,
\*   "ph" / "sm" the characters of the placeholder / the sample sentence.
\* str.strip() and slicing only look at positions and at whitespace, so the
\* encoding loses nothing they can see.
CharLimit == 3000

Chars(c, n) == [c |-> c, n |-> n]

placeholder_text == << Chars("ph", 47) >>

\* len(text)
RECURSIVE TextLen(_)
TextLen(t) == IF t = << >> THEN 0 ELSE Head(t).n + TextLen(Tail(t))

\* a + b (string concatenation), keeping the encoding normal.
Cat(a, b) ==
    IF a = << >> THEN b
    ELSE IF b = << >> THEN a
    ELSE IF a[Len(a)].c = Head(b).c
         THEN SubSeq(a, 1, Len(a) - 1)
              \o << Chars(Head(b).c, a[Len(a)].n + Head(b).n) >>
              \o Tail(b)
         ELSE a \o b

RECURSIVE LStrip(_)
LStrip(t) == IF t = << >> THEN << >>
             ELSE IF Head(t).c = "ws" THEN LStrip(Tail(t)) ELSE t

RECURSIVE RStrip(_)
RStrip(t) ==
    IF t = << >> THEN << >>
    ELSE IF t[Len(t)].c = "ws"
         THEN RStrip(SubSeq(t, 1, Len(t) - 1))
         ELSE t

\* str.strip()
Strip(t) == RStrip(LStrip(t))

\* t[:k]
RECURSIVE Take(_, _)
Take(t, k) ==
    IF k <= 0 \/ t = << >> THEN << >>
    ELSE IF Head(t).n <= k
         THEN << Head(t) >> \o Take(Tail(t), k - Head(t).n)
         ELSE << Chars(Head(t).c, k) >>

\* text_input.get("1.0", "end"): Tk returns the content plus a final newline.
TextGet(t) == Cat(t, << Chars("ws", 1) >>)

\* What the widget may hold when a key is released: whatever the user has
\* typed or pasted with the keyboard since the last handler ran.
TypedTexts ==
    { << >>,
      << Chars("ws", 2) >>,
      << Chars("ch", 5) >>,
      << Chars("ch", CharLimit + 1) >>,
      << Chars("ws", 2), Chars("ch", CharLimit - 1), Chars("ws", 2) >>,
      << Chars("ws", 1), Chars("ch", CharLimit - 1), Chars("ws", 1), Chars("ch", 5) >>,
      placeholder_text }

\* What pyperclip.paste() may return.
ClipTexts ==
    { << >>,
      << Chars("ws", 2) >>,
      << Chars("ch", 5) >>,
      << Chars("ws", 2), Chars("ch", CharLimit + 1) >> }

\* ------------------------------------------------------------------ files
\* A path is a sequence of characters.
LowerChar(ch) ==
    CASE ch = "A" -> "a" [] ch = "B" -> "b" [] ch = "E" -> "e"
      [] ch = "G" -> "g" [] ch = "J" -> "j" [] ch = "M" -> "m"
      [] ch = "N" -> "n" [] ch = "P" -> "p" [] ch = "S" -> "s"
      [] OTHER -> ch

\* str.lower()
Lower(p) == [i \in DOMAIN p |-> LowerChar(p[i])]

\* str.endswith(suffix)
EndsWith(p, suf) ==
    /\ Len(suf) <= Len(p)
    /\ SubSeq(p, Len(p) - Len(suf) + 1, Len(p)) = suf

AllowedExt ==
    { << ".", "p", "n", "g" >>, << ".", "j", "p", "g" >>,
      << ".", "j", "p", "e", "g" >>, << ".", "b", "m", "p" >> }

MaxBytes == 25 * 1024 * 1024


\* Paths the file dialog may return (<< >> is "", the dialog cancelled).
PickedPaths ==
    { << >>,
      << "A", ".", "P", "N", "G" >>,
      << "a", ".", "b", "m", "p" >>,
      << "a", ".", "g", "i", "f" >> }

\* os.path.getsize(path) of a picked file.
Sizes == { 0, MaxBytes - 1, MaxBytes, MaxBytes + 1 }

\* os.path.join(os.getcwd(), "assets", "sample.jpg")
sample_path == << "s", ".", "j", "p", "g" >>

NoFile == << >>
NoImage == [kind |-> "none", path |-> << >>]
\* Image.open(path)
ImageOf(p) == [kind |-> "file", path |-> p]
\* Image.new("RGB", (320, 240), ...)
GeneratedImage == [kind |-> "generated", path |-> << >>]

\* ------------------------------------------------------------------ state
NavKeys == { "home", "model", "help", "settings" }

VARIABLES
    \* MainApp
    active_nav,        \* self.active_nav
    nav_style,         \* style of home_btn, model_btn, help_btn, settings_btn
    container,         \* children of self.container, in creation order
    last_error,        \* self.last_error
    status,            \* text of the status label
    \* HomeView (the instance mounted in the container)
    selected_file,     \* self.selected_file
    preview_image,     \* self.preview_image
    text_input,        \* content of self.text_input
    task_var,          \* self.task_var
    visible_input,     \* which of image_input_frame / text_input_frame is packed
    running,           \* self.running
    task_menu_state,   \* self.task_menu.cget("state")
    run_btn_state,     \* self.run_btn.cget("state")
    run_btn_text,      \* self.run_btn.cget("text")
    task_prev_state,   \* self._task_prev_state
    output_frame,      \* children of self.output_frame, in creation order
    focused,           \* self.text_input has the keyboard focus
    lang_var,          \* self.lang_var
    save_history_var,  \* self.save_history_var
    history_list,      \* lines of self.history_list (the Listbox)
    layout,            \* grid cells of left_wrap, center_wrap, right_wrap
    width,             \* self.winfo_width() at the latest <Configure>
    \* MainApp, shared with every HomeView
    history_items,     \* self.history_items
    \* ModelController
    pending,           \* dispatches of the mounted view not yet called back
    \* history variable, read by no handler: the selector and run-control
    \* states at the moment the latest dispatched run was started
    run_prior

appVars == << active_nav, nav_style, container >>
inputVars == << selected_file, preview_image, text_input, task_var, visible_input >>
runVars == << last_error, status, running, task_menu_state, run_btn_state,
              run_btn_text, task_prev_state, output_frame >>
histVars == << history_items, history_list >>
\* Widget state the handlers' record does not carry.
uiVars == << focused, lang_var, save_history_var, width >>
vars == << appVars, inputVars, runVars, histVars, layout, uiVars,
           pending, run_prior >>

\* A dict keyed by widget attribute name; {} also stands for the attribute
\* not being set yet (getattr(self, "_task_prev_state", None) is falsy too).
EmptyDict == [n \in {} |-> "normal"]

\* Grid cell (row, column, columnspan) of each of the three wrappers:
\* the grid calls of _build_ui, which are those of _on_resize's else branch.
SideBySide ==
    [ left_wrap |-> << 0, 0, 1 >>, center_wrap |-> << 0, 1, 1 >>,
      right_wrap |-> << 0, 2, 1 >> ]

\* The grid cells of _on_resize's compact branch.
Stacked ==
    [ left_wrap |-> << 0, 0, 3 >>, center_wrap |-> << 1, 0, 3 >>,
      right_wrap |-> << 2, 0, 3 >> ]

\* A history record of a run of the given task kind (its timestamp and
\* summaries are not modelled).
HistoryRecord(task) == [task |-> task]

\* The Listbox line of a record: f"{ts} — {task}".
HistoryLine(it) == it.task

\* The Listbox of a new view left empty.
populate_history_list_empty(items) == << >>

\* _build_ui: "Populate listbox from shared history".
populate_history_list(items) ==
    [i \in DOMAIN items |-> HistoryLine(items[i])]

\* The call a handler makes to the controller: the method and its input.
NoCall == [fn |-> "none", arg |-> << >>]
ControllerCall(fn, arg) == [fn |-> fn, arg |-> arg]

\* The fields the handlers below read and write in sequence, as one record.
Cur ==
    [ selected_file |-> selected_file, preview_image |-> preview_image,
      text_input |-> text_input, last_error |-> last_error, status |-> status,
      running |-> running, task_menu_state |-> task_menu_state,
      run_btn_state |-> run_btn_state, run_btn_text |-> run_btn_text,
      task_prev_state |-> task_prev_state, output_frame |-> output_frame,
      visible_input |-> visible_input, history_items |-> history_items,
      history_list |-> history_list, layout |-> layout,
      dispatched |-> 0, call |-> NoCall ]

Becomes(s) ==
    /\ selected_file' = s.selected_file
    /\ preview_image' = s.preview_image
    /\ text_input' = s.text_input
    /\ last_error' = s.last_error
    /\ status' = s.status
    /\ running' = s.running
    /\ task_menu_state' = s.task_menu_state
    /\ run_btn_state' = s.run_btn_state
    /\ run_btn_text' = s.run_btn_text
    /\ task_prev_state' = s.task_prev_state
    /\ output_frame' = s.output_frame
    /\ visible_input' = s.visible_input
    /\ history_items' = s.history_items
    /\ history_list' = s.history_list
    /\ layout' = s.layout
    /\ pending' = pending + s.dispatched

\* A freshly constructed HomeView (__init__ and _build_ui).
NewView ==
    [ selected_file |-> NoFile, preview_image |-> NoImage,
      text_input |-> placeholder_text, running |-> FALSE,
      task_menu_state |-> "readonly", run_btn_state |-> "normal",
      run_btn_text |-> "Run", task_prev_state |-> EmptyDict,
      output_frame |-> << >>, task_var |-> "Image to Text",
      lang_var |-> "Auto-detect", save_history_var |-> TRUE,
      focused |-> FALSE, layout |-> SideBySide, width |-> 1 ]


\* ------------------------------------------------------------------ handlers
\* Each handler is a function from the record of fields before the call to
\* the record after it, so that a handler calling another composes them.

\* MainApp.set_status(message, running)
set_status(s, message) == [s EXCEPT !.status = message]

\* _reset_run_state without its line re-enabling the run control.
_reset_run_state_keeps_button(s) ==
    LET prev == s.task_prev_state
        s1 == [s EXCEPT
                 !.running = FALSE,
                 !.task_menu_state =
                     IF "task_menu" \in DOMAIN prev THEN prev["task_menu"] ELSE @,
                 !.task_prev_state = IF DOMAIN prev # {} THEN EmptyDict ELSE @]
    IN  set_status(s1, "Ready")

\* HomeView._reset_run_state
_reset_run_state(s) ==
    LET prev == s.task_prev_state
        s1 == [s EXCEPT
                 !.running = FALSE,
                 !.task_menu_state =
                     IF "task_menu" \in DOMAIN prev THEN prev["task_menu"] ELSE @,
                 !.task_prev_state = IF DOMAIN prev # {} THEN EmptyDict ELSE @,
                 !.run_btn_state = "normal",
                 !.run_btn_text = "Run"]
    IN  set_status(s1, "Ready")

\* HomeView._handle_error(message): records the message as the shared last
\* error and returns the view to its ready state.
_handle_error(s, message) ==
    _reset_run_state([s EXCEPT !.last_error = message])

\* _on_result appending a history record whatever the checkbox says.
_on_result_always_saves(s, result, task_label, save) ==
    LET shown == [s EXCEPT !.output_frame = << result >>]
        it == HistoryRecord(IF task_label = "Image to Text"
                            THEN "image" ELSE "sentiment")
        saved == [shown EXCEPT
                    !.history_items = Append(@, it),
                    !.history_list = Append(@, HistoryLine(it))]
    IN  IF result = "error"
        THEN _handle_error(shown, "Inference failed")
        ELSE _reset_run_state(saved)

\* HomeView._on_result(result): renders what the controller returned into
\* the output panel; on success, if "save to history" is checked, appends a
\* history record of the task and its line in the history list; then runs
\* the reset routine (on success and on error).
_on_result(s, result, task_label, save) ==
    LET shown == [s EXCEPT !.output_frame = << result >>]
        it == HistoryRecord(IF task_label = "Image to Text"
                            THEN "image" ELSE "sentiment")
        saved == [shown EXCEPT
                    !.history_items = Append(@, it),
                    !.history_list = Append(@, HistoryLine(it))]
    IN  IF result = "error"
        THEN _handle_error(shown, "Inference failed")
        ELSE _reset_run_state(IF save THEN saved ELSE shown)

\* _validate_image rejecting a file of exactly the maximum size.
_validate_image_off_by_one(s, path, size) ==
    IF ~ \E ext \in AllowedExt : EndsWith(Lower(path), ext)
    THEN [ok |-> FALSE,
          s |-> _handle_error(s, "Invalid file format. Use PNG, JPG, JPEG, or BMP.")]
    ELSE IF size >= MaxBytes
    THEN [ok |-> FALSE,
          s |-> _handle_error(s, "File too large. Maximum size is 25 MB.")]
    ELSE [ok |-> TRUE, s |-> s]

\* HomeView._validate_image(path): the verdict and the fields afterwards.
_validate_image(s, path, size) ==
    IF ~ \E ext \in AllowedExt : EndsWith(Lower(path), ext)
    THEN [ok |-> FALSE,
          s |-> _handle_error(s, "Invalid file format. Use PNG, JPG, JPEG, or BMP.")]
    ELSE IF size > MaxBytes
    THEN [ok |-> FALSE,
          s |-> _handle_error(s, "File too large. Maximum size is 25 MB.")]
    ELSE [ok |-> TRUE, s |-> s]

\* choose_file setting selected_file before it validates the file.
choose_file_sets_first(s, f, size, decodes) ==
    IF f = << >> THEN s
    ELSE LET picked == [s EXCEPT !.selected_file = f]
             v == _validate_image(picked, f, size)
         IN  IF ~ v.ok THEN v.s
             ELSE IF decodes
             THEN [v.s EXCEPT !.preview_image = ImageOf(f)]
             ELSE _handle_error(v.s, "Invalid image file")

\* HomeView.choose_file, the dialog having returned f, a file of `size`
\* bytes that Image.open can (decodes) or cannot read.
choose_file(s, f, size, decodes) ==
    IF f = << >> THEN s
    ELSE LET v == _validate_image(s, f, size)
         IN  IF ~ v.ok THEN v.s
             ELSE IF decodes
             THEN [v.s EXCEPT !.selected_file = f, !.preview_image = ImageOf(f)]
             ELSE _handle_error([v.s EXCEPT !.selected_file = f],
                                "Invalid image file")

\* HomeView.use_sample_image; found: assets/sample.jpg exists and opens.
use_sample_image(s, found) ==
    IF found
    THEN [s EXCEPT !.preview_image = ImageOf(sample_path),
                   !.selected_file = sample_path]
    ELSE [s EXCEPT !.preview_image = GeneratedImage, !.selected_file = NoFile]

\* HomeView._enforce_char_limit
_enforce_char_limit(s) ==
    LET text == Strip(TextGet(s.text_input))
    IN  IF TextLen(text) > CharLimit
        THEN [s EXCEPT !.text_input = Take(text, CharLimit)]
        ELSE s

\* HomeView.paste_clipboard, pyperclip.paste() having returned txt.
paste_clipboard(s, txt) ==
    IF txt # << >> THEN [s EXCEPT !.text_input = Take(txt, CharLimit)] ELSE s

\* HomeView.clear_inputs
clear_inputs(s) ==
    _reset_run_state([s EXCEPT !.selected_file = NoFile,
                               !.preview_image = NoImage,
                               !.text_input = placeholder_text,
                               !.output_frame = << >>])

\* HomeView._set_placeholder
_set_placeholder(s) == [s EXCEPT !.text_input = placeholder_text]

\* HomeView._clear_placeholder (<FocusIn>)
_clear_placeholder(s) ==
    IF Strip(TextGet(s.text_input)) = placeholder_text
    THEN [s EXCEPT !.text_input = << >>]
    ELSE s

\* _restore_placeholder looking at the content without stripping it.
_restore_placeholder_unstripped(s) ==
    IF s.text_input = << >> THEN _set_placeholder(s) ELSE s

\* HomeView._restore_placeholder (<FocusOut>)
_restore_placeholder(s) ==
    IF Strip(TextGet(s.text_input)) = << >> THEN _set_placeholder(s) ELSE s

\* The sample of use_sample_text, 60 characters none of them blank at
\* either end.
sample_text == << Chars("sm", 60) >>

\* HomeView.use_sample_text
use_sample_text(s) == [s EXCEPT !.text_input = sample_text]

\* The width below which the three panels are stacked.
CompactWidth == 900

\* The width _on_resize assumes when winfo_width() is 0.
DefaultWidth == 1000

\* Widths winfo_width() reports: Tk reports 1 for a widget not yet mapped
\* and the width in pixels afterwards, never 0.
Widths == { 1, CompactWidth - 1, CompactWidth, CompactWidth + 1, DefaultWidth }

\* _on_resize stacking the panels at the threshold width as well.
_on_resize_inclusive(s, winfo_width) ==
    LET w == IF winfo_width # 0 THEN winfo_width ELSE DefaultWidth
        compact == w <= CompactWidth
    IN  IF compact THEN [s EXCEPT !.layout = Stacked]
        ELSE [s EXCEPT !.layout = SideBySide]

\* HomeView._on_resize (<Configure>), winfo_width() being the width read.
_on_resize(s, winfo_width) ==
    LET w == IF winfo_width # 0 THEN winfo_width ELSE DefaultWidth
        compact == w < CompactWidth
    IN  IF compact THEN [s EXCEPT !.layout = Stacked]
        ELSE [s EXCEPT !.layout = SideBySide]

\* The attributes among task_select, task_cb, task_menu, task_option that a
\* HomeView has.
TaskWidgets == { "task_menu" }

\* "image" if task_label.lower().startswith("image") else "sentiment"
TaskOf(task_label) ==
    IF task_label = "Image to Text" THEN "image" ELSE "sentiment"

\* The loading frame left in the output panel.
destroy_loading_forgotten(s) == s

\* loading_frame.destroy()
destroy_loading(s) ==
    [s EXCEPT !.output_frame = SelectSeq(@, LAMBDA w : w # "loading")]

Languages == { "Auto-detect", "English", "German" }

\* f" (in {lang})" as runs of characters.
LangSuffix(lang) ==
    << Chars("ws", 1), Chars("(in", 3), Chars("ws", 1),
       Chars(lang, IF lang = "German" THEN 6 ELSE 7), Chars(")", 1) >>

\* run_task handing over the text whatever the language selector says.
SentimentInput_ignores_language(txt, lang) == txt

\* The text run_task hands to run_sentiment.
SentimentInput(txt, lang) ==
    IF lang # "Auto-detect" THEN Cat(txt, LangSuffix(lang)) ELSE txt

\* run_task taking the placeholder for text the user entered.
run_task_sends_placeholder(s, task_label, lang) ==
    LET captured == [s EXCEPT
                       !.task_prev_state = [n \in {"task_menu"} |-> s.task_menu_state],
                       !.task_menu_state = "disabled"]
        started == set_status([captured EXCEPT
                                 !.output_frame = << "loading" >>,
                                 !.running = TRUE,
                                 !.run_btn_state = "disabled",
                                 !.run_btn_text = "Running"],
                              "Running")
        txt == Strip(TextGet(s.text_input))
    IN  IF s.running THEN captured
        ELSE IF task_label = "Image to Text"
        THEN IF s.selected_file = NoFile /\ s.preview_image = NoImage
             THEN destroy_loading(_handle_error(started, "No image selected"))
             ELSE [started EXCEPT
                     !.dispatched = 1,
                     !.call = ControllerCall("run_image_caption",
                                  IF s.selected_file # NoFile
                                  THEN s.selected_file ELSE s.preview_image)]
        ELSE IF txt = << >>
             THEN destroy_loading(_handle_error(started, "No text entered"))
             ELSE [started EXCEPT
                     !.dispatched = 1,
                     !.call = ControllerCall("run_sentiment",
                                             SentimentInput(txt, lang))]

\* HomeView.run_task
run_task(s, task_label, lang) ==
    LET captured == [s EXCEPT
                       !.task_prev_state = [n \in TaskWidgets |-> s.task_menu_state],
                       !.task_menu_state = "disabled"]
        started == set_status([captured EXCEPT
                                 !.output_frame = << "loading" >>,
                                 !.running = TRUE,
                                 !.run_btn_state = "disabled",
                                 !.run_btn_text = "Running"],
                              "Running")
        txt == Strip(TextGet(s.text_input))
    IN  IF s.running THEN captured
        ELSE IF TaskOf(task_label) = "image"
        THEN IF s.selected_file = NoFile /\ s.preview_image = NoImage
             THEN destroy_loading(_handle_error(started, "No image selected"))
             ELSE [started EXCEPT
                     !.dispatched = 1,
                     !.call = ControllerCall("run_image_caption",
                                  IF s.selected_file # NoFile
                                  THEN s.selected_file ELSE s.preview_image)]
        ELSE IF txt = << >> \/ txt = placeholder_text
             THEN destroy_loading(_handle_error(started, "No text entered"))
             ELSE [started EXCEPT
                     !.dispatched = 1,
                     !.call = ControllerCall("run_sentiment",
                                             SentimentInput(txt, lang))]


\* _toggle_inputs emptying the text field it hides or shows.
_toggle_inputs_resets_text(s, task_label) ==
    IF TaskOf(task_label) = "image"
    THEN [s EXCEPT !.visible_input = "image", !.text_input = placeholder_text]
    ELSE [s EXCEPT !.visible_input = "text", !.text_input = placeholder_text]

\* HomeView._toggle_inputs: the input frame left packed (the size it
\* configures on the text field is not modelled).
_toggle_inputs(s, task_label) ==
    IF TaskOf(task_label) = "image"
    THEN [s EXCEPT !.visible_input = "image"]
    ELSE [s EXCEPT !.visible_input = "text"]

TaskLabels == { "Image to Text", "Sentiment Analysis" }

\* ------------------------------------------------------------------ MainApp
\* _apply_nav_styles styling the active button only.
_apply_nav_styles_active_only(styles, active) ==
    [key \in NavKeys |->
        IF key = active THEN "ActiveNav.TButton" ELSE styles[key]]

\* MainApp._apply_nav_styles: the style of each navigation button.
_apply_nav_styles(styles, active) ==
    [key \in NavKeys |->
        IF key = active THEN "ActiveNav.TButton" ELSE "Nav.TButton"]

\* MainApp._clear_container: destroys every child of the content container.
_clear_container(c) == << >>

\* MainApp.show_home / show_model / show_help / show_settings: the children
\* of the container afterwards, each view named by its navigation key.
show_home(c) == Append(_clear_container(c), "home")
show_model(c) == Append(_clear_container(c), "model")
show_help(c) == Append(_clear_container(c), "help")
show_settings(c) == Append(_clear_container(c), "settings")

\* MainApp.switch_nav, the view shown for target.
switch_nav(c, target) ==
    CASE target = "home" -> show_home(c)
      [] target = "model" -> show_model(c)
      [] target = "help" -> show_help(c)
      [] target = "settings" -> show_settings(c)
      [] OTHER -> c

\* self._current_view is a HomeView.
HomeMounted == container # << >> /\ container[Len(container)] = "home"

\* ------------------------------------------------------------------ Init
\* The state MainApp.__init__ leaves: it ends with switch_nav("home").
Init ==
    /\ active_nav = "home"
    /\ nav_style = _apply_nav_styles([key \in NavKeys |-> "Nav.TButton"], "home")
    /\ container = switch_nav(<< >>, "home")
    /\ last_error = "None"
    /\ status = "Ready"
    /\ selected_file = NewView.selected_file
    /\ preview_image = NewView.preview_image
    /\ text_input = NewView.text_input
    /\ task_var = NewView.task_var
    /\ visible_input = "image"
    /\ focused = NewView.focused
    /\ lang_var = NewView.lang_var
    /\ save_history_var = NewView.save_history_var
    /\ layout = NewView.layout
    /\ width = NewView.width
    /\ history_items = << >>
    /\ history_list = populate_history_list(<< >>)
    /\ running = NewView.running
    /\ task_menu_state = NewView.task_menu_state
    /\ run_btn_state = NewView.run_btn_state
    /\ run_btn_text = NewView.run_btn_text
    /\ task_prev_state = NewView.task_prev_state
    /\ output_frame = NewView.output_frame
    /\ pending = 0
    /\ run_prior = [task_menu |-> "readonly", run_btn |-> "normal"]

\* ------------------------------------------------------------------ events
\* A navigation button is clicked. The view in the container is destroyed
\* and, for "home", a new HomeView is built; the fields of a destroyed
\* HomeView are no longer part of the state, and the callbacks still owed
\* to it find its widgets gone.
ClickNav ==
    \E target \in NavKeys :
        /\ active_nav' = target
        /\ nav_style' = _apply_nav_styles(nav_style, target)
        /\ container' = switch_nav(container, target)
        /\ selected_file' = NewView.selected_file
        /\ preview_image' = NewView.preview_image
        /\ text_input' = NewView.text_input
        /\ task_var' = NewView.task_var
        /\ visible_input' = "image"
        /\ focused' = NewView.focused
        /\ lang_var' = NewView.lang_var
        /\ save_history_var' = NewView.save_history_var
        /\ layout' = NewView.layout
        /\ width' = NewView.width
        /\ history_items' = history_items
        /\ history_list' = IF target = "home"
                           THEN populate_history_list(history_items)
                           ELSE << >>
        /\ running' = NewView.running
        /\ task_menu_state' = NewView.task_menu_state
        /\ run_btn_state' = NewView.run_btn_state
        /\ run_btn_text' = NewView.run_btn_text
        /\ task_prev_state' = NewView.task_prev_state
        /\ output_frame' = NewView.output_frame
        /\ pending' = 0
        /\ run_prior' = [task_menu |-> "readonly", run_btn |-> "normal"]
        /\ UNCHANGED << last_error, status >>

\* run_task is invoked; the history variable follows a dispatch.
InvokeRunTask ==
    LET r == run_task(Cur, task_var, lang_var)
    IN  /\ r.dispatched = 0 \/ pending < MaxPending
        /\ Becomes(r)
        /\ run_prior' = IF r.dispatched = 1
                        THEN [task_menu |-> task_menu_state,
                              run_btn |-> run_btn_state]
                        ELSE run_prior
        /\ UNCHANGED << appVars, task_var, uiVars >>

\* The Run button is clicked (a disabled ttk.Button ignores clicks).
ClickRun ==
    /\ HomeMounted
    /\ run_btn_state # "disabled"
    /\ InvokeRunTask

\* run_task is called while a run is in progress, which no widget does.
CallRunTask ==
    /\ HomeMounted
    /\ running
    /\ InvokeRunTask

\* The Clear button is clicked.
ClickClear ==
    /\ HomeMounted
    /\ Becomes(clear_inputs(Cur))
    /\ UNCHANGED << appVars, task_var, uiVars, run_prior >>

\* The Choose Image button is clicked and the dialog returns.
ClickChooseImage ==
    /\ HomeMounted
    /\ visible_input = "image"
    /\ \E f \in PickedPaths, size \in Sizes, decodes \in BOOLEAN :
           Becomes(choose_file(Cur, f, size, decodes))
    /\ UNCHANGED << appVars, task_var, uiVars, run_prior >>

\* The Use Sample button is clicked.
ClickUseSample ==
    /\ HomeMounted
    /\ visible_input = "image"
    /\ \E found \in BOOLEAN : Becomes(use_sample_image(Cur, found))
    /\ UNCHANGED << appVars, task_var, uiVars, run_prior >>

\* A task is picked in the task selector (<<ComboboxSelected>>).
SelectTask ==
    /\ HomeMounted
    /\ task_menu_state # "disabled"
    /\ \E label \in TaskLabels :
           /\ task_var' = label
           /\ Becomes(_toggle_inputs(Cur, label))
    /\ UNCHANGED << appVars, uiVars, run_prior >>

\* A key goes down in the text field: Tk's own binding edits the content.
KeyPress ==
    /\ HomeMounted
    /\ visible_input = "text"
    /\ focused
    /\ \E t \in TypedTexts : text_input' = t
    /\ UNCHANGED << appVars, selected_file, preview_image, task_var,
                    visible_input, runVars, histVars, layout, uiVars,
                    pending, run_prior >>

\* The key goes up (<KeyRelease>): _enforce_char_limit runs.
KeyRelease ==
    /\ HomeMounted
    /\ visible_input = "text"
    /\ focused
    /\ Becomes(_enforce_char_limit(Cur))
    /\ UNCHANGED << appVars, task_var, uiVars, run_prior >>

\* The Paste from Clipboard button is clicked.
ClickPaste ==
    /\ HomeMounted
    /\ visible_input = "text"
    /\ \E txt \in ClipTexts : Becomes(paste_clipboard(Cur, txt))
    /\ UNCHANGED << appVars, task_var, uiVars, run_prior >>

\* The controller calls back the mounted view, with a result or an error.
ControllerCallback ==
    /\ HomeMounted
    /\ pending > 0
    /\ \E result \in { "result", "error" } :
           /\ result = "result" /\ save_history_var
                  => Len(history_items) < MaxHistory
           /\ Becomes([_on_result(Cur, result, task_var, save_history_var)
                          EXCEPT !.dispatched = -1])
    /\ UNCHANGED << appVars, task_var, uiVars, run_prior >>

\* The text field takes the keyboard focus (<FocusIn>): a click in it.
FocusIn ==
    /\ HomeMounted
    /\ visible_input = "text"
    /\ ~ focused
    /\ focused' = TRUE
    /\ Becomes(_clear_placeholder(Cur))
    /\ UNCHANGED << appVars, task_var, lang_var, save_history_var, width,
                    run_prior >>

\* The text field loses the keyboard focus (<FocusOut>).
FocusOut ==
    /\ HomeMounted
    /\ focused
    /\ focused' = FALSE
    /\ Becomes(_restore_placeholder(Cur))
    /\ UNCHANGED << appVars, task_var, lang_var, save_history_var, width,
                    run_prior >>

\* The Use Sample Text button is clicked.
ClickUseSampleText ==
    /\ HomeMounted
    /\ visible_input = "text"
    /\ Becomes(use_sample_text(Cur))
    /\ UNCHANGED << appVars, task_var, uiVars, run_prior >>

\* A language is picked in the language selector.
SelectLanguage ==
    /\ HomeMounted
    /\ visible_input = "text"
    /\ \E lang \in Languages : lang_var' = lang
    /\ UNCHANGED << appVars, inputVars, runVars, histVars, layout, focused,
                    save_history_var, width, pending, run_prior >>

\* The "Save to history" checkbox is clicked.
ToggleSaveHistory ==
    /\ HomeMounted
    /\ save_history_var' = ~ save_history_var
    /\ UNCHANGED << appVars, inputVars, runVars, histVars, layout, focused,
                    lang_var, width, pending, run_prior >>

\* The view is resized (<Configure>) and measures its width.
OnResize ==
    /\ HomeMounted
    /\ \E w \in Widths :
           /\ width' = w
           /\ Becomes(_on_resize(Cur, w))
    /\ UNCHANGED << appVars, task_var, focused, lang_var, save_history_var,
                    run_prior >>

Next ==
    \/ ClickNav
    \/ ClickRun
    \/ ClickClear
    \/ ClickChooseImage
    \/ ClickUseSample
    \/ SelectTask
    \/ KeyPress
    \/ KeyRelease
    \/ ClickPaste
    \/ FocusIn
    \/ FocusOut
    \/ ControllerCallback

\* The events of the running program.
Spec == Init /\ [][Next]_vars

\* The events that start, reset or end a run: the text a sentiment run
\* reads is the placeholder or the sample.
NextRun ==
    \/ ClickNav
    \/ ClickRun
    \/ ClickClear
    \/ ClickChooseImage
    \/ ClickUseSample
    \/ ClickUseSampleText
    \/ SelectTask
    \/ ControllerCallback

\* The controller delivers every callback it owes.
FairSpec == Init /\ [][NextRun]_vars /\ WF_vars(ControllerCallback)

NextCall == Next \/ CallRunTask

\* The events of the running program, and run_task called by other code.
SpecCall == Init /\ [][NextCall]_vars

NextImage ==
    \/ ClickNav
    \/ SelectTask
    \/ ClickChooseImage
    \/ ClickUseSample
    \/ ClickClear
    \/ ClickRun
    \/ ControllerCallback

\* The events of the image input.
SpecImage == Init /\ [][NextImage]_vars

NextText ==
    \/ SelectTask
    \/ FocusIn
    \/ FocusOut
    \/ KeyPress
    \/ KeyRelease
    \/ ClickPaste
    \/ ClickUseSampleText
    \/ ClickUseSample
    \/ ClickClear
    \/ SelectLanguage
    \/ ClickRun
    \/ ControllerCallback

\* The events of the text input and its language selector, and the sample
\* image for a run of the other task.
SpecText == Init /\ [][NextText]_vars

NextHistory ==
    \/ ClickNav
    \/ SelectTask
    \/ ClickUseSample
    \/ ClickUseSampleText
    \/ ToggleSaveHistory
    \/ ClickRun
    \/ ControllerCallback

\* The events by which the history grows and is shown.
SpecHistory == Init /\ [][NextHistory]_vars

NextLayout ==
    \/ OnResize
    \/ ClickNav
    \/ SelectTask
    \/ ClickUseSample
    \/ ClickRun
    \/ ControllerCallback

\* The events of a window being resized while it is used.
SpecLayout == Init /\ [][NextLayout]_vars


\* ------------------------------------------------------------------ properties

\* C1: the controller is dispatched only when no earlier dispatch of the view
\* is still owed its callback, and Clear pressed while one is owed leaves a
\* further run blocked (running still true or the run control disabled).
C1_NoDispatchWhileOneIsOutstanding ==
    [][/\ pending' > pending => pending = 0
       /\ (ClickClear /\ pending > 0)
              => (running' \/ run_btn_state' = "disabled")]_vars

\* C2: run_task invoked while running is true changes nothing: no dispatch,
\* no loading indicator, and the running flag, the selector and run-control
\* states and label, _task_prev_state and the output panel stay as they were.
C2_RunTaskWhileRunningChangesNothing ==
    [][CallRunTask => UNCHANGED << runVars, inputVars, pending >>]_vars

\* C3: when the callback of the one outstanding run is delivered, the task
\* selector and the run control are back in the states they had immediately
\* before that run started, whatever happened during the run.
C3_ControlsRestoredToPriorState ==
    [][(ControllerCallback /\ running /\ pending = 1)
          => /\ task_menu_state' = run_prior.task_menu
             /\ run_btn_state' = run_prior.run_btn]_vars

\* C4: while a run is in progress (running is true, or its callback is still
\* owed) the run control and the task selector are both disabled.
C4_ControlsDisabledWhileRunOutstanding ==
    (HomeMounted /\ (running \/ pending > 0))
        => (run_btn_state = "disabled" /\ task_menu_state = "disabled")

\* C5: Run with the image task, no file selected and no preview image is
\* rejected with "No image selected": nothing is dispatched, the loading
\* indicator is gone, running is false, the run control is enabled and the
\* task selector is in the state it had before.
C5_NoImageRejectedLocally ==
    [][(ClickRun /\ TaskOf(task_var) = "image"
           /\ selected_file = NoFile /\ preview_image = NoImage)
          => /\ pending' = pending
             /\ last_error' = "No image selected"
             /\ \A i \in DOMAIN output_frame' : output_frame'[i] # "loading"
             /\ running' = FALSE
             /\ run_btn_state' = "normal"
             /\ run_btn_text' = "Run"
             /\ task_menu_state' = task_menu_state]_vars

\* C5 witness: a rejected image run has left the view ready.
C5_Witness ==
    /\ HomeMounted
    /\ last_error = "No image selected"
    /\ selected_file = NoFile /\ preview_image = NoImage
    /\ output_frame = << >>
    /\ ~ running /\ run_btn_state = "normal" /\ task_menu_state = "readonly"


\* The home view is ready for the user: not running, the run control
\* enabled, the task selector not disabled.
Ready ==
    HomeMounted =>
        (~ running /\ run_btn_state = "normal" /\ task_menu_state # "disabled")

\* C6: as long as the controller delivers the callbacks it owes, a home view
\* that is not ready becomes ready again, whatever the user does: after a
\* result, a controller error, a local validation failure or Clear.
C6_EventuallyReady == (~ Ready) ~> Ready

\* C6 witness: the view is ready again after a controller error.
C6_Witness ==
    /\ HomeMounted
    /\ output_frame = << "error" >>
    /\ last_error = "Inference failed"
    /\ pending = 0
    /\ ~ running /\ run_btn_state = "normal" /\ task_menu_state = "readonly"

\* Picked paths by extension, listed by hand.
GoodExtPaths ==
    { << "A", ".", "P", "N", "G" >>, << "a", ".", "j", "p", "g" >>,
      << "a", ".", "J", "p", "e", "G" >>, << "a", ".", "b", "m", "p" >> }

BadExtPaths ==
    { << "a", ".", "g", "i", "f" >>,
      << "a", ".", "p", "n", "g", ".", "t", "x", "t" >>,
      << "p", "n", "g" >>,
      << "a", "j", "p", "e", "g" >> }

\* C7: a path whose extension is not .png, .jpg, .jpeg or .bmp is invalid
\* for _validate_image, and choose_file then leaves selected_file and
\* preview_image as they were, in every state of the view.
C7_BadExtensionKeepsSelection ==
    HomeMounted =>
        \A f \in BadExtPaths, size \in Sizes, decodes \in BOOLEAN :
            LET after == choose_file(Cur, f, size, decodes)
            IN  /\ ~ _validate_image(Cur, f, size).ok
                /\ after.selected_file = selected_file
                /\ after.preview_image = preview_image

\* C7 witness: a wrong-format pick was rejected while a selection existed
\* (only an undecodable pick leaves selected_file and preview_image apart,
\* and it would have left its own message as the last error).
C7_Witness ==
    /\ HomeMounted
    /\ last_error = "Invalid file format. Use PNG, JPG, JPEG, or BMP."
    /\ selected_file = << "a", ".", "b", "m", "p" >>
    /\ preview_image = ImageOf(<< "A", ".", "P", "N", "G" >>)

\* C8: a path with an allowed extension, in any letter case, is valid for
\* _validate_image exactly when the file has at most 25*1024*1024 bytes.
C8_AllowedExtensionValidUpToMaxBytes ==
    \A f \in GoodExtPaths, size \in Sizes :
        _validate_image(Cur, f, size).ok <=> size <= 25 * 1024 * 1024

\* C8 witness: an upper-case .PNG has been accepted by choose_file.
C8_Witness ==
    /\ HomeMounted
    /\ selected_file = << "A", ".", "P", "N", "G" >>
    /\ preview_image = ImageOf(<< "A", ".", "P", "N", "G" >>)

\* C9: a key release with more than 3000 characters in the field leaves the
\* first 3000 of them, and no key release leaves more than 3000.
C9_KeyReleaseTruncatesTo3000 ==
    [][KeyRelease =>
          /\ TextLen(text_input) > 3000
                => text_input' = Take(text_input, 3000)
          /\ TextLen(text_input') <= 3000]_vars

\* C10: the content container holds one view, that of active_nav, and the
\* navigation button of active_nav is the only one styled active.
C10_OneViewOneActiveButton ==
    /\ container = << active_nav >>
    /\ \A key \in NavKeys :
           nav_style[key] = "ActiveNav.TButton" <=> key = active_nav

\* C10 witness: navigation has gone to another tab and come back to Home.
C10_Witness ==
    /\ active_nav = "home"
    /\ container = << "home" >>
    /\ status = "Running"
    /\ ~ running

\* C11: picking a task in the task selector leaves packed the input panel of
\* the picked task and nothing else of the inputs changes: the content of
\* the text field, selected_file and preview_image are as before.
C11_ToggleChangesOnlyVisiblePanel ==
    [][SelectTask =>
          /\ visible_input' = IF TaskOf(task_var') = "image" THEN "image"
                              ELSE "text"
          /\ UNCHANGED << text_input, selected_file, preview_image >>]_vars

\* C11 witness: the image panel is shown again over a text field holding
\* typed text, with the sample file and its preview in place.
C11_Witness ==
    /\ HomeMounted
    /\ visible_input = "image"
    /\ task_var = "Image to Text"
    /\ text_input = << Chars("ch", 5) >>
    /\ selected_file = sample_path
    /\ preview_image = ImageOf(sample_path)

\* C12: with Sentiment Analysis selected, the sample text in the field and
\* "Save to history" checked, the successful callback of a run appends
\* exactly one record to the history, of task kind "sentiment", after the
\* records already there; a callback reporting an error, or one arriving
\* with the box unchecked, appends none, and nothing but a callback changes
\* the history.
C12_SavedRunAppendsOneRecord ==
    [][/\ (/\ ControllerCallback
           /\ task_var = "Sentiment Analysis"
           /\ text_input = sample_text
           /\ save_history_var
           /\ output_frame' = << "result" >>)
          => /\ Len(history_items') = Len(history_items) + 1
             /\ history_items'[Len(history_items')].task = "sentiment"
             /\ SubSeq(history_items', 1, Len(history_items)) = history_items
       /\ (ControllerCallback
              /\ (output_frame' = << "error" >> \/ ~ save_history_var))
          => history_items' = history_items
       /\ (~ ControllerCallback) => history_items' = history_items]_vars

\* C12 witness: a sentiment run on the sample text has succeeded with the
\* box checked and left the one record of the history.
C12_Witness ==
    /\ HomeMounted
    /\ task_var = "Sentiment Analysis"
    /\ text_input = sample_text
    /\ save_history_var
    /\ output_frame = << "result" >>
    /\ ~ running /\ pending = 0
    /\ history_items = << HistoryRecord("sentiment") >>

\* C13: the history list of the mounted home view shows the shared history
\* MainApp.history_items, one line per record and in the same order, and the
\* shared history only grows at its end: this holds for the view built when
\* Home is opened again after another tab, as for the first one.
C13_HistoryListShowsSharedHistory ==
    /\ [](HomeMounted =>
            /\ Len(history_list) = Len(history_items)
            /\ \A i \in 1..Len(history_items) :
                   history_list[i] = history_items[i].task)
    /\ [][/\ Len(history_items') >= Len(history_items)
          /\ SubSeq(history_items', 1, Len(history_items)) = history_items]_vars

\* C13 witness: a home view built after an image run and then a sentiment
\* run were saved (its output panel is still empty) lists both, in order.
C13_Witness ==
    /\ HomeMounted
    /\ output_frame = << >>
    /\ history_items = << HistoryRecord("image"), HistoryRecord("sentiment") >>
    /\ history_list = << "image", "sentiment" >>

\* C14: Run with the sentiment task, the text field empty once stripped or
\* holding the placeholder, is rejected with "No text entered": nothing is
\* dispatched to the controller, the loading indicator is gone, and the
\* running flag, the run control, the task selector and _task_prev_state
\* are as they were before the click.
C14_NoTextRejectedLocally ==
    [][(/\ ClickRun
        /\ TaskOf(task_var) = "sentiment"
        /\ (Strip(text_input) = << >> \/ Strip(text_input) = placeholder_text))
          => /\ pending' = pending
             /\ last_error' = "No text entered"
             /\ \A i \in DOMAIN output_frame' : output_frame'[i] # "loading"
             /\ UNCHANGED << running, run_btn_state, run_btn_text,
                             task_menu_state, task_prev_state >>]_vars

\* C14 witness: a sentiment run over a field holding two blanks has been
\* rejected and the view is as it was.
C14_Witness ==
    /\ HomeMounted
    /\ task_var = "Sentiment Analysis"
    /\ text_input = << Chars("ws", 2) >>
    /\ last_error = "No text entered"
    /\ output_frame = << >>
    /\ pending = 0
    /\ ~ running /\ run_btn_state = "normal" /\ task_menu_state = "readonly"

C16_LayoutFollowsLatestWidth ==
    [][/\ OnResize => layout' = IF width' < 900 THEN Stacked ELSE SideBySide
       /\ (~ OnResize /\ ~ ClickNav) => layout' = layout]_vars

\* C16 witness: a view measured at 899 pixels after a run has its panels
\* stacked.
C16_Witness ==
    /\ HomeMounted
    /\ width = 899
    /\ layout = Stacked
    /\ output_frame = << "result" >>

\* C17 as stated: a Run click that dispatches the sentiment task calls
\* run_sentiment with the content of the text field as it is when the
\* language selector says "Auto-detect", and with that content followed by
\* the language otherwise; one that dispatches the image task makes the same
\* call whatever the language selector says.
C17_DispatchedTextAsEntered ==
    [][(ClickRun /\ pending' = pending + 1) =>
          LET call == run_task(Cur, task_var, lang_var).call
          IN  IF TaskOf(task_var) = "sentiment"
              THEN /\ call.fn = "run_sentiment"
                   /\ call.arg = IF lang_var = "Auto-detect"
                                 THEN text_input
                                 ELSE Cat(text_input, LangSuffix(lang_var))
              ELSE /\ call.fn = "run_image_caption"
                   /\ \A lang \in Languages :
                          run_task(Cur, task_var, lang).call = call]_vars

\* C17 amended: as above, the text handed to run_sentiment being the
\* content of the field without the blanks before and after it, followed by
\* " (in <language>)" when the selector does not say "Auto-detect".
C17_DispatchedTextStripped ==
    [][(ClickRun /\ pending' = pending + 1) =>
          LET call == run_task(Cur, task_var, lang_var).call
          IN  IF TaskOf(task_var) = "sentiment"
              THEN /\ call.fn = "run_sentiment"
                   /\ call.arg = IF lang_var = "Auto-detect"
                                 THEN Strip(text_input)
                                 ELSE Cat(Strip(text_input),
                                          LangSuffix(lang_var))
              ELSE /\ call.fn = "run_image_caption"
                   /\ call.arg = IF selected_file # NoFile
                                 THEN selected_file ELSE preview_image
                   /\ \A lang \in Languages :
                          run_task(Cur, task_var, lang).call = call]_vars

\* C17 witness: a sentiment run is under way on text typed with blanks
\* around it, the language selector saying English.
C17_Witness ==
    /\ HomeMounted
    /\ task_var = "Sentiment Analysis"
    /\ lang_var = "English"
    /\ text_input = << Chars("ws", 2), Chars("ch", CharLimit - 1),
                       Chars("ws", 2) >>
    /\ running /\ pending = 1
    /\ output_frame = << "loading" >>

\* C18: selected_file and preview_image agree in every state of the view:
\* both are unset, or preview_image is the decoding of selected_file, or
\* selected_file is unset and preview_image is the generated sample.
C18_SelectionMatchesPreview ==
    HomeMounted =>
        \/ selected_file = NoFile /\ preview_image = NoImage
        \/ selected_file # NoFile /\ preview_image = ImageOf(selected_file)
        \/ selected_file = NoFile /\ preview_image = GeneratedImage

====
